---- MODULE Spec2Model ----
(***************************************************************************)
(* Model of crypto/signatures.go (digim3ta/Sia): key generation, SignHash,  *)
(* VerifyHash and the signed-object codec (WriteSignedObject,               *)
(* ReadSignedObject, SignObject, VerifyObject, SecretKey.PublicKey).        *)
(*                                                                          *)
(* Values are byte sequences throughout.  The collaborators that live       *)
(* outside signatures.go (the encoding package, HashBytes, stdKeyGen and    *)
(* the ed25519 primitive) are modelled from the specification: a            *)
(* length-prefixed framing, an ideal (collision-free) digest and an ideal   *)
(* signature (exactly one valid signature per public key and digest).       *)
(***************************************************************************)
EXTENDS Integers, Sequences, FiniteSets, TLC

VARIABLES
    keys,      \* results returned so far by the two key generators
    hv,        \* the last SignHash / VerifyHash call: inputs and results
    wire,      \* the bytes held by the stream / buffer
    written,   \* what the writer was asked to sign (inputs of the write call)
    mut,       \* what happened to the wire after the write
    read       \* the last ReadSignedObject / VerifyObject call

vars == <<keys, hv, wire, written, mut, read>>

----------------------------------------------------------------------------
(* Sizes *)

EntropySize == 32
PublicKeySize == 32
SecretKeySize == 64
SignatureSize == 64
HashSize == 32
PrefixSize == 8

(* Bounds of the model *)

\* seeds are the constant byte strings 0^32 .. MaxSeed^32
MaxSeed == 1
\* strings carried by the signed values have at most MaxStrLen bytes
MaxStrLen == 1
\* the largest finite maxLen a caller passes
BigMaxLen == 16

\* ^uint64(0), the "no limit" maxLen of VerifyObject, as the int64 with the
\* same bits
MaxUint64 == -1

----------------------------------------------------------------------------
(* Errors *)

Nil == "nil"
errInvalidSignature == "invalid signature"
errEntropy == "entropy failure"
errFraming == "framing error"
errDecode == "decode error"

----------------------------------------------------------------------------
(* Bytes *)

Zeros(n) == [i \in 1..n |-> 0]

\* b with bit k flipped
FlipBit(b, k) ==
    LET p == 2 ^ k
    IN  IF (b \div p) % 2 = 1 THEN b - p ELSE b + p

\* EncUint64: 8 bytes, little endian (n < 2^24 in this model)
EncUint64(n) ==
    [i \in 1..PrefixSize |->
        IF i = 1 THEN n % 256
        ELSE IF i = 2 THEN (n \div 256) % 256
        ELSE IF i = 3 THEN (n \div 65536) % 256
        ELSE 0]

\* DecUint64 of the first 8 bytes of b, saturated at 2^24: the result is only
\* compared with lengths of buffers far shorter than that
DecUint64(b) ==
    IF \E i \in 4..PrefixSize : b[i] # 0
    THEN 16777216
    ELSE b[1] + 256 * b[2] + 65536 * b[3]

Drop(b, n) == SubSeq(b, n + 1, Len(b))
Take(b, n) == SubSeq(b, 1, n)

----------------------------------------------------------------------------
(* Collaborators outside signatures.go *)

\* HashBytes: an ideal 32-byte digest; injective on inputs shorter than
\* HashSize bytes (every encoded object of this model is)
HashBytes(b) ==
    LET body == Take(b, IF Len(b) < HashSize THEN Len(b) ELSE HashSize - 1)
    IN  <<Len(b) % 256>> \o body \o Zeros(HashSize - 1 - Len(body))

\* the seeds the entropy source can deliver
Entropy == {[i \in 1..EntropySize |-> e] : e \in 0..MaxSeed}

\* the public key ed25519 derives from a seed (injective, never the seed)
DerivePublic(seed) ==
    [i \in 1..PublicKeySize |-> (seed[i] * 7 + 11 + i) % 256]

\* stdKeyGen.generateDeterministic: the secret key is the seed followed by
\* the public key
generateDeterministic(entropy) ==
    [sk |-> entropy \o DerivePublic(entropy),
     pk |-> DerivePublic(entropy),
     err |-> Nil]

\* stdKeyGen.generate with a failing entropy source: zero keys and an error
generateFailed ==
    [sk |-> Zeros(SecretKeySize), pk |-> Zeros(PublicKeySize), err |-> errEntropy]

\* ed25519.Sign: ideal signature, bound to the public half of sk and to the
\* message
Ed25519Sign(sk, msg) == SubSeq(sk, SecretKeySize - PublicKeySize + 1, SecretKeySize) \o msg

\* ed25519.Verify: exactly one signature verifies for a public key and message
Ed25519Verify(pk, msg, sig) == sig = pk \o msg

(* The values the encoder handles: a string, or a record of a bool and a     *)
(* string.  A value is [type, b, s]; b is FALSE for a string.                *)

Types == {"str", "rec"}
Chars == {97}
Strings == UNION {[1..n -> Chars] : n \in 0..MaxStrLen}
Values ==
    {[type |-> "str", b |-> FALSE, s |-> s] : s \in Strings}
    \cup {[type |-> "rec", b |-> b, s |-> s] : b \in BOOLEAN, s \in Strings}
ZeroValue(t) == [type |-> t, b |-> FALSE, s |-> <<>>]

EncString(s) == EncUint64(Len(s)) \o s

\* encoding.Marshal
Marshal(v) ==
    IF v.type = "str" THEN EncString(v.s)
    ELSE <<IF v.b THEN 1 ELSE 0>> \o EncString(v.s)

\* decoding of a length-prefixed byte string from the front of b:
\* [ok, s, rest]
DecPrefixed(b) ==
    IF Len(b) < PrefixSize
    THEN [ok |-> FALSE, s |-> <<>>, rest |-> b]
    ELSE LET n == DecUint64(b)
         IN  IF Len(b) - PrefixSize < n
             THEN [ok |-> FALSE, s |-> <<>>, rest |-> b]
             ELSE [ok |-> TRUE,
                   s |-> SubSeq(b, PrefixSize + 1, PrefixSize + n),
                   rest |-> Drop(b, PrefixSize + n)]

\* encoding.Unmarshal(b, obj): decodes into the target in place, field by
\* field; bytes after the value are ignored.  [err, obj]
Unmarshal(b, obj) ==
    IF obj.type = "str"
    THEN LET d == DecPrefixed(b)
         IN  IF d.ok THEN [err |-> Nil, obj |-> [obj EXCEPT !.s = d.s]]
             ELSE [err |-> errDecode, obj |-> obj]
    ELSE IF Len(b) < 1 \/ b[1] \notin {0, 1}
         THEN [err |-> errDecode, obj |-> obj]
         ELSE LET o1 == [obj EXCEPT !.b = (b[1] = 1)]
                  d == DecPrefixed(Drop(b, 1))
              IN  IF d.ok THEN [err |-> Nil, obj |-> [o1 EXCEPT !.s = d.s]]
                  ELSE [err |-> errDecode, obj |-> o1]

\* Encoder.EncodeAll(encObj, sig): two length-prefixed fields
EncodeAll(encObj, sig) ==
    EncUint64(Len(encObj)) \o encObj \o EncUint64(Len(sig)) \o sig

\* Decoder.DecodeAll(&encObj, &sig): a byte slice, then a Signature, whose
\* length must be SignatureSize.  [err, encObj, sig]
DecodeAll(r) ==
    LET f1 == DecPrefixed(r)
        f2 == DecPrefixed(f1.rest)
        bad == [err |-> errFraming, encObj |-> <<>>, sig |-> Zeros(SignatureSize)]
    IN  IF ~f1.ok THEN bad
        ELSE IF ~f2.ok \/ Len(f2.s) # SignatureSize
        THEN [bad EXCEPT !.encObj = f1.s]
        ELSE [err |-> Nil, encObj |-> f1.s, sig |-> f2.s]

----------------------------------------------------------------------------
(* signatures.go *)

\* SignHash (lines 58-62): [sig, err]
SignHash(data, sk) ==
    LET skNorm == sk
    IN  [sig |-> Ed25519Sign(skNorm, data), err |-> Nil]

\* VerifyHash with the test of `verifies` inverted
VerifyHash_Inverted(data, pk, sig) ==
    LET verifies == Ed25519Verify(pk, data, sig)
    IN  IF verifies THEN errInvalidSignature ELSE Nil

\* VerifyHash checking the signature against the key it names itself, not
\* against the caller's pk
VerifyHash_AnyKey(data, pk, sig) ==
    LET verifies == Ed25519Verify(Take(sig, PublicKeySize), data, sig)
    IN  IF ~verifies THEN errInvalidSignature ELSE Nil

\* VerifyHash (lines 65-73)
VerifyHash(data, pk, sig) ==
    LET verifies == Ed25519Verify(pk, data, sig)
    IN  IF ~verifies THEN errInvalidSignature ELSE Nil

\* PublicKey copying the first bytes of sk instead of the last
PublicKey_Prefix(sk) ==
    LET src == Take(sk, PublicKeySize)
    IN  [i \in 1..PublicKeySize |-> IF i <= Len(src) THEN src[i] ELSE 0]

\* SecretKey.PublicKey (lines 115-118): copy(pk[:], sk[SecretKeySize-PublicKeySize:])
PublicKey(sk) ==
    LET src == Drop(sk, SecretKeySize - PublicKeySize)
    IN  [i \in 1..PublicKeySize |-> IF i <= Len(src) THEN src[i] ELSE 0]

\* WriteSignedObject emitting the signature before the object
WriteSignedObject_SigFirst(obj, sk) ==
    LET encObj == Marshal(obj)
        sig == SignHash(HashBytes(encObj), sk).sig
    IN  [out |-> EncodeAll(sig, encObj), err |-> Nil]

\* WriteSignedObject emitting the key in place of the signature
WriteSignedObject_LeakKey(obj, sk) ==
    LET encObj == Marshal(obj)
        sig == SignHash(HashBytes(encObj), sk).sig
    IN  [out |-> EncodeAll(encObj, sk), err |-> Nil]

\* WriteSignedObject (lines 76-80): the bytes handed to w, and the error
WriteSignedObject(obj, sk) ==
    LET encObj == Marshal(obj)
        sig == SignHash(HashBytes(encObj), sk).sig
    IN  [out |-> EncodeAll(encObj, sig), err |-> Nil]

\* ReadSignedObject without the verification step
ReadSignedObject_NoVerify(r, obj, maxLen, pk) ==
    LET dec == DecodeAll(r)
    IN  IF dec.err # Nil
        THEN [err |-> dec.err, obj |-> obj, steps |-> <<"DecodeAll">>]
        ELSE LET u == Unmarshal(dec.encObj, obj)
             IN  [err |-> u.err, obj |-> u.obj, steps |-> <<"DecodeAll", "Unmarshal">>]

\* ReadSignedObject decoding the object before it verifies the signature
ReadSignedObject_DecodeFirst(r, obj, maxLen, pk) ==
    LET dec == DecodeAll(r)
    IN  IF dec.err # Nil
        THEN [err |-> dec.err, obj |-> obj, steps |-> <<"DecodeAll">>]
        ELSE LET u == Unmarshal(dec.encObj, obj)
                 vErr == VerifyHash(HashBytes(dec.encObj), pk, dec.sig)
             IN  [err |-> IF vErr # Nil THEN vErr ELSE u.err, obj |-> u.obj,
                  steps |-> <<"DecodeAll", "Unmarshal", "HashBytes", "VerifyHash">>]

\* ReadSignedObject that drops the error of DecodeAll and goes on with what
\* was decoded
ReadSignedObject_IgnoreDecodeErr(r, obj, maxLen, pk) ==
    LET dec == DecodeAll(r)
        vErr == VerifyHash(HashBytes(dec.encObj), pk, dec.sig)
    IN  IF vErr # Nil
        THEN [err |-> vErr, obj |-> obj,
              steps |-> <<"DecodeAll", "HashBytes", "VerifyHash">>]
        ELSE LET u == Unmarshal(dec.encObj, obj)
             IN  [err |-> u.err, obj |-> u.obj,
                  steps |-> <<"DecodeAll", "HashBytes", "VerifyHash", "Unmarshal">>]

\* ReadSignedObject reporting a failed decode as an invalid signature
ReadSignedObject_MaskDecode(r, obj, maxLen, pk) ==
    LET dec == DecodeAll(r)
    IN  IF dec.err # Nil
        THEN [err |-> dec.err, obj |-> obj, steps |-> <<"DecodeAll">>]
        ELSE LET vErr == VerifyHash(HashBytes(dec.encObj), pk, dec.sig)
             IN  IF vErr # Nil
                 THEN [err |-> vErr, obj |-> obj,
                       steps |-> <<"DecodeAll", "HashBytes", "VerifyHash">>]
                 ELSE LET u == Unmarshal(dec.encObj, obj)
                      IN  [err |-> IF u.err # Nil THEN errInvalidSignature ELSE Nil,
                           obj |-> u.obj,
                           steps |-> <<"DecodeAll", "HashBytes", "VerifyHash", "Unmarshal">>]

\* ReadSignedObject (lines 84-98): the error returned, the target afterwards
\* and the steps executed, in order
ReadSignedObject(r, obj, maxLen, pk) ==
    LET dec == DecodeAll(r)
    IN  IF dec.err # Nil
        THEN [err |-> dec.err, obj |-> obj, steps |-> <<"DecodeAll">>]
        ELSE LET vErr == VerifyHash(HashBytes(dec.encObj), pk, dec.sig)
             IN  IF vErr # Nil
                 THEN [err |-> vErr, obj |-> obj,
                       steps |-> <<"DecodeAll", "HashBytes", "VerifyHash">>]
                 ELSE LET u == Unmarshal(dec.encObj, obj)
                      IN  [err |-> u.err, obj |-> u.obj,
                           steps |-> <<"DecodeAll", "HashBytes", "VerifyHash", "Unmarshal">>]

\* SignObject (lines 101-105): the bytes of a fresh buffer
SignObject(obj, sk) == WriteSignedObject(obj, sk).out

\* VerifyObject (lines 108-112)
VerifyObject(data, obj, pk) == ReadSignedObject(data, obj, MaxUint64, pk)

----------------------------------------------------------------------------
(* State machine: callers of the package and the channel between them *)

\* the messages whose digests are signed directly
Messages == {<<>>, <<97>>, <<116, 101, 115, 116>>}
Digests == {HashBytes(m) : m \in Messages}

\* the bits of a byte the channel may flip
FlipBits == {0, 7}

\* the maxLen values a caller of ReadSignedObject passes
MaxLens == {0, BigMaxLen}

\* the targets a reader decodes into: a fresh variable of either type
Targets == {ZeroValue(t) : t \in Types}

NoWrite == [done |-> FALSE, obj |-> ZeroValue("str"), sk |-> Zeros(SecretKeySize)]

NoRead == [called |-> FALSE, op |-> "none", pk |-> Zeros(PublicKeySize),
           maxLen |-> 0, objPre |-> ZeroValue("str"), err |-> Nil,
           obj |-> ZeroValue("str"), steps |-> <<>>]

NoHv == [signed |-> FALSE, sdata |-> Zeros(HashSize), ssk |-> Zeros(SecretKeySize),
         sig |-> Zeros(SignatureSize), serr |-> Nil,
         verified |-> FALSE, vdata |-> Zeros(HashSize), vpk |-> Zeros(PublicKeySize),
         verr |-> Nil]

\* the key pairs a caller goes on to use: those returned without an error
Usable == {k \in keys : k.err = Nil}

Init ==
    /\ keys = {}
    /\ hv = NoHv
    /\ wire = <<>>
    /\ written = NoWrite
    /\ mut = "none"
    /\ read = NoRead

\* GenerateKeyPair (lines 47-49)
CallGenerateKeyPair ==
    /\ ~written.done
    /\ \/ \E e \in Entropy : keys' = keys \cup {generateDeterministic(e)}
       \/ keys' = keys \cup {generateFailed}
    /\ UNCHANGED <<hv, wire, written, mut, read>>

\* GenerateKeyPairDeterministic (lines 53-55)
CallGenerateKeyPairDeterministic ==
    /\ ~written.done
    /\ \E e \in Entropy : keys' = keys \cup {generateDeterministic(e)}
    /\ UNCHANGED <<hv, wire, written, mut, read>>

\* a caller signs a digest
CallSignHash ==
    /\ ~written.done
    /\ \E d \in Digests, k \in Usable :
          LET res == SignHash(d, k.sk)
          IN  hv' = [hv EXCEPT !.signed = TRUE, !.sdata = d, !.ssk = k.sk,
                               !.sig = res.sig, !.serr = res.err,
                               !.verified = FALSE, !.vdata = Zeros(HashSize),
                               !.vpk = Zeros(PublicKeySize), !.verr = Nil]
    /\ UNCHANGED <<keys, wire, written, mut, read>>

\* a caller verifies the signature it was handed
CallVerifyHash ==
    /\ ~written.done
    /\ hv.signed
    /\ \E d \in Digests, k \in Usable :
          hv' = [hv EXCEPT !.verified = TRUE, !.vdata = d, !.vpk = k.pk,
                           !.verr = VerifyHash(d, k.pk, hv.sig)]
    /\ UNCHANGED <<keys, wire, written, mut, read>>

\* a writer signs a value onto a fresh stream
CallWriteSignedObject ==
    /\ ~written.done /\ ~read.called
    /\ \E v \in Values, k \in Usable :
          LET res == WriteSignedObject(v, k.sk)
          IN  /\ res.err = Nil
              /\ wire' = wire \o res.out
              /\ written' = [done |-> TRUE, obj |-> v, sk |-> k.sk]
    /\ UNCHANGED <<keys, hv, mut, read>>

\* a writer signs a value into a buffer
CallSignObject ==
    /\ ~written.done /\ ~read.called
    /\ \E v \in Values, k \in Usable :
          /\ wire' = SignObject(v, k.sk)
          /\ written' = [done |-> TRUE, obj |-> v, sk |-> k.sk]
    /\ UNCHANGED <<keys, hv, mut, read>>

\* the channel flips one bit of the frame before it is read
Tamper ==
    /\ written.done /\ mut = "none" /\ ~read.called
    /\ \E i \in 1..Len(wire), k \in FlipBits :
          wire' = [wire EXCEPT ![i] = FlipBit(@, k)]
    /\ mut' = "flip"
    /\ UNCHANGED <<keys, hv, written, read>>

\* the channel cuts the frame short before it is read
Truncate ==
    /\ written.done /\ mut = "none" /\ ~read.called
    /\ \E n \in 0..(Len(wire) - 1) : wire' = Take(wire, n)
    /\ mut' = "trunc"
    /\ UNCHANGED <<keys, hv, written, read>>

\* a reader reads the stream into a target of some type
CallReadSignedObject ==
    /\ ~read.called
    /\ \E k \in Usable, pre \in Targets, m \in MaxLens :
          LET res == ReadSignedObject(wire, pre, m, k.pk)
          IN  read' = [called |-> TRUE, op |-> "ReadSignedObject", pk |-> k.pk,
                       maxLen |-> m, objPre |-> pre, err |-> res.err,
                       obj |-> res.obj, steps |-> res.steps]
    /\ UNCHANGED <<keys, hv, wire, written, mut>>

\* a reader verifies a buffer into a target of some type
CallVerifyObject ==
    /\ ~read.called
    /\ \E k \in Usable, pre \in Targets :
          LET res == VerifyObject(wire, pre, k.pk)
          IN  read' = [called |-> TRUE, op |-> "VerifyObject", pk |-> k.pk,
                       maxLen |-> MaxUint64, objPre |-> pre, err |-> res.err,
                       obj |-> res.obj, steps |-> res.steps]
    /\ UNCHANGED <<keys, hv, wire, written, mut>>

\* the signed-object codec and its channel
Next ==
    \/ CallGenerateKeyPairDeterministic
    \/ CallWriteSignedObject
    \/ CallSignObject
    \/ Tamper
    \/ Truncate
    \/ CallReadSignedObject
    \/ CallVerifyObject

Spec == Init /\ [][Next]_vars

\* the primitives, and the codec over a channel that delivers what was
\* written
NextKeys ==
    \/ CallGenerateKeyPair
    \/ CallGenerateKeyPairDeterministic
    \/ CallSignHash
    \/ CallVerifyHash
    \/ CallWriteSignedObject
    \/ CallSignObject
    \/ CallReadSignedObject
    \/ CallVerifyObject

SpecKeys == Init /\ [][NextKeys]_vars

----------------------------------------------------------------------------
(* Properties *)

\* what the last read saw: a read ends the session, the wire is as it read it
Dec == DecodeAll(wire)
Verifies == Dec.err = Nil /\ VerifyHash(HashBytes(Dec.encObj), read.pk, Dec.sig) = Nil
Ran(step) == \E i \in DOMAIN read.steps : read.steps[i] = step
Before(a, b) ==
    \A i \in DOMAIN read.steps :
        read.steps[i] = b => \E j \in 1..(i - 1) : read.steps[j] = a
Intact == written.done /\ mut = "none"
RightKey == read.pk = PublicKey(written.sk)
Fits(n, maxLen) == maxLen = MaxUint64 \/ n <= maxLen

\* C1: a read (ReadSignedObject or VerifyObject) of a well-framed stream
\* trusts the frame, i.e. goes on to decode it, if and only if
\* VerifyHash(HashBytes(encObj), pk, sig) succeeds; Unmarshal never runs
\* before VerifyHash has; a failed verification returns the
\* invalid-signature error without reaching the decode; success is returned
\* only for a verified frame.
C1_VerifyBeforeDecode ==
    read.called =>
        /\ (Dec.err = Nil => (Ran("Unmarshal") <=> Verifies))
        /\ Before("VerifyHash", "Unmarshal")
        /\ (Dec.err = Nil /\ ~Verifies =>
                read.err = errInvalidSignature /\ ~Ran("Unmarshal"))
        /\ (read.err = Nil => Verifies)

C1_Witness ==
    /\ read.called /\ Dec.err = Nil /\ ~Verifies
    /\ read.err = errInvalidSignature
    /\ read.steps = <<"DecodeAll", "HashBytes", "VerifyHash">>

\* C2: a ReadSignedObject of a frame whose encoded object is longer than the
\* caller's maxLen fails with a framing error and never reaches VerifyHash.
C2_MaxLenEnforced ==
    (/\ read.called
     /\ DecPrefixed(wire).ok
     /\ ~Fits(Len(DecPrefixed(wire).s), read.maxLen))
    => (read.err = errFraming /\ ~Ran("VerifyHash"))

\* C3: reading what WriteSignedObject / SignObject wrote, with the public key
\* of the signing key, a target of the value's type and a maxLen that the
\* encoded object fits, succeeds and yields the value written.
C3_RoundTrip ==
    (/\ read.called /\ Intact /\ RightKey
     /\ read.objPre.type = written.obj.type
     /\ Fits(Len(Marshal(written.obj)), read.maxLen))
    => (read.err = Nil /\ read.obj = written.obj)

C3_Witness ==
    /\ read.called /\ Intact /\ RightKey
     /\ read.objPre.type = "rec" /\ written.obj.type = "rec"
     /\ Fits(Len(Marshal(written.obj)), read.maxLen)
     /\ written.obj.b /\ written.obj.s # <<>>
     /\ read.err = Nil /\ read.obj = written.obj

\* C4: a signature made with sk1 over a digest does not verify under the
\* public key of a different key pair: VerifyHash returns the
\* invalid-signature error, and a read of a frame written with sk1 under that
\* other public key returns that same error and leaves the target alone.
C4_WrongKeyRejected ==
    /\ (hv.verified /\ hv.vdata = hv.sdata /\ hv.vpk # PublicKey(hv.ssk))
        => hv.verr = errInvalidSignature
    /\ (read.called /\ Intact /\ ~RightKey)
        => (/\ read.err = errInvalidSignature
            /\ read.obj = read.objPre
            /\ ~Ran("Unmarshal"))

C4_Witness ==
    /\ hv.verified /\ hv.vdata = hv.sdata /\ hv.vpk # PublicKey(hv.ssk)
    /\ hv.verr = errInvalidSignature
    /\ read.called /\ Intact /\ ~RightKey
    /\ read.err = errInvalidSignature

\* C5: a written frame with one bit of its encObj bytes or of its signature
\* bytes flipped (the two length prefixes as written) is rejected with the
\* invalid-signature error by a read under the matching public key, and is
\* not decoded.
C5_TamperDetected ==
    (/\ read.called /\ written.done /\ mut = "flip" /\ RightKey
     /\ Dec.err = Nil
     /\ Len(Dec.encObj) = Len(Marshal(written.obj)))
    => (/\ read.err = errInvalidSignature
        /\ ~Ran("Unmarshal")
        /\ read.obj = read.objPre)

C5_Witness ==
    /\ read.called /\ written.done /\ mut = "flip" /\ RightKey
    /\ Dec.err = Nil
    /\ Dec.encObj # Marshal(written.obj)
    /\ Len(Dec.encObj) = Len(Marshal(written.obj))
    /\ read.err = errInvalidSignature

\* C6: when either field cannot be read in full, the read returns the error
\* of DecodeAll and runs neither HashBytes nor VerifyHash nor Unmarshal; the
\* invalid-signature error is returned only for a stream DecodeAll accepted.
C6_FramingFirst ==
    read.called =>
        /\ (Dec.err # Nil =>
                /\ read.err = Dec.err
                /\ read.err # errInvalidSignature
                /\ read.steps = <<"DecodeAll">>)
        /\ (read.err = errInvalidSignature => Dec.err = Nil)

C6_Witness ==
    /\ read.called /\ mut = "trunc" /\ Len(wire) > PrefixSize
    /\ read.err = errFraming /\ read.steps = <<"DecodeAll">>

\* C7: a frame whose signature verifies but whose encObj does not decode into
\* the target gives a decode error, which is not the invalid-signature error;
\* the invalid-signature error is returned exactly when VerifyHash fails, and
\* a decode error only after VerifyHash has succeeded.
C7_DecodeErrorDistinct ==
    read.called =>
        /\ (Verifies /\ Unmarshal(Dec.encObj, read.objPre).err # Nil =>
                read.err = errDecode /\ read.err # errInvalidSignature)
        /\ (read.err = errInvalidSignature => Dec.err = Nil /\ ~Verifies)
        /\ (read.err = errDecode =>
                Verifies /\ Before("VerifyHash", "Unmarshal") /\ Ran("Unmarshal"))

C7_Witness ==
    /\ read.called /\ Verifies
    /\ read.objPre.type # written.obj.type
    /\ read.err = errDecode

\* C8: every key pair a generator returned satisfies sk.PublicKey() = pk, and
\* sk.PublicKey() is the last PublicKeySize bytes of sk.
C8_KeyDerivation ==
    \A k \in keys :
        /\ PublicKey(k.sk) = k.pk
        /\ Len(k.sk) = SecretKeySize
        /\ PublicKey(k.sk) = SubSeq(k.sk, SecretKeySize - PublicKeySize + 1, SecretKeySize)

C8_Witness ==
    /\ \E k \in keys : k.err = Nil /\ k.pk # Take(k.sk, PublicKeySize)
    /\ generateFailed \in keys

\* C9: the writer emits exactly the length-prefixed encObj followed by the
\* length-prefixed signature of HashBytes(encObj) under sk, SignatureSize
\* bytes long, and nothing else; the secret key is no part of the output; the
\* reader splits the output into the same two fields.
C9_WireFormat ==
    Intact =>
        LET encObj == Marshal(written.obj)
            sig == SignHash(HashBytes(encObj), written.sk).sig
        IN  /\ wire = EncUint64(Len(encObj)) \o encObj \o EncUint64(SignatureSize) \o sig
            /\ Len(sig) = SignatureSize
            /\ Len(wire) = PrefixSize + Len(encObj) + PrefixSize + SignatureSize
            /\ \A i \in 0..(Len(wire) - SecretKeySize) :
                   SubSeq(wire, i + 1, i + SecretKeySize) # written.sk
            /\ Dec = [err |-> Nil, encObj |-> encObj, sig |-> sig]

C9_Witness ==
    /\ Intact /\ written.obj.type = "rec" /\ written.obj.s # <<>>
    /\ Dec.err = Nil /\ Dec.encObj = Marshal(written.obj)

\* C10: a read that returns a framing error or the invalid-signature error
\* leaves the caller's target as it was, and has not run the decode step.
C10_NoPartialSuccess ==
    (read.called /\ read.err \in {errFraming, errInvalidSignature})
    => (read.obj = read.objPre /\ ~Ran("Unmarshal"))

C10_Witness ==
    /\ read.called /\ read.err = errInvalidSignature
    /\ Dec.err = Nil
    /\ Unmarshal(Dec.encObj, read.objPre).obj # read.objPre
    /\ read.obj = read.objPre

====
